---- MODULE Spec2Model ----
(***************************************************************************)
(* Verification model of the ShootCleaner batch enhancement pipeline.      *)
(*                                                                         *)
(*   - ImageProcessor.executeCommand / enhanceImage / enhanceBatch         *)
(*     (services/imageProcessor.ts): the renderer-side batch engine.       *)
(*   - BatchEnhancement.tsx: the React component that owns the job list.   *)
(*                                                                         *)
(* Strings are TLA+ strings; a command line is the sequence of its         *)
(* blank-separated tokens; a file name is the sequence of its              *)
(* dot-separated segments.  A missing (undefined) field of a JavaScript    *)
(* object is the string Undefined.                                         *)
(***************************************************************************)
EXTENDS Integers, Sequences, FiniteSets, TLC

\* ------------------------------------------------------------------ bounds

\* Longest batch handed to enhanceBatch.
MaxJobs == 2

\* Number of files dropped on the BatchEnhancement component over its life.
MaxIds == 3

\* Longest image list handed to imagemagick:batchProcess and to editBatch.
MaxImages == 2

\* Number of imports started in the RAWImport component over its life.
MaxImports == 2

\* Longest list of file paths handed to importImages and processMultipleImages.
MaxFiles == 2

\* Number of initializeSession calls on one ImageProcessor.
MaxSessions == 5

\* Largest number of images handed to analyzeBatch.
MaxAnalysed == 11

\* Largest number of analyses handed to getCullingRecommendations.
MaxAnalyses == 2

\* AIAnalysisService.maxBatchSize
maxBatchSize == 10

\* ------------------------------------------------------------------ values

Undefined == "undefined"

\* Parameters of an ImageMagickCommand (Record<string, any>); a key that is
\* absent reads as undefined, which `||` treats like 0, so absent keys are 0.
NoParams == [brightness |-> 0, contrast |-> 0, sharpness |-> 0, amount |-> 0]

cDenoise == [operation |-> "denoise", hasParameters |-> FALSE, parameters |-> NoParams]
cSharpen == [operation |-> "sharpen", hasParameters |-> TRUE,
             parameters |-> [NoParams EXCEPT !.amount = 2]]
cSharpenBare == [operation |-> "sharpen", hasParameters |-> FALSE, parameters |-> NoParams]
cVignette == [operation |-> "vignette", hasParameters |-> FALSE, parameters |-> NoParams]

\* The instruction chains an analysis result may carry (analysis.commands).
CommandLists ==
    { <<>>,
      <<cVignette>>,
      <<cDenoise, cSharpen>>,
      <<cSharpenBare, cDenoise>>,
      <<cDenoise, cSharpenBare>> }

\* The images a batch is drawn from: path plus analysis.filename (segments).
Files ==
    { [path |-> "/in/a.jpg", filename |-> <<"a", "jpg">>],
      [path |-> "/in/b.jpg", filename |-> <<"b", "jpg">>] }

BatchItems == [path : {f.path : f \in Files}, filename : {f.filename : f \in Files},
               commands : CommandLists]

Items == { it \in BatchItems : [path |-> it.path, filename |-> it.filename] \in Files }

outputDir == "/out"

\* What window.electronAPI.executeImageMagick can do: resolve with
\* {success: true}, resolve with {success: false, error}, reject with an
\* Error, reject with a value that is no Error.
IpcOutcomes == {"ok", "fail", "throwError", "throwValue"}

\* ------------------------------------------------------------------ strings

RECURSIVE Join(_, _)
Join(segs, sep) ==
    IF Len(segs) = 0 THEN ""
    ELSE IF Len(segs) = 1 THEN segs[1]
    ELSE segs[1] \o sep \o Join(Tail(segs), sep)

Front(s) == SubSeq(s, 1, Len(s) - 1)

Last(s) == s[Len(s)]

\* command.includes('<option>') on a token sequence.
Includes(command, option) == \E n \in 1..Len(command) : command[n] = "-" \o option

\* x || d for a number x.
OrElse(x, d) == IF x = 0 THEN d ELSE x

\* ------------------------------------------------------------------ helpers

ExtractEnhancementType(command) ==
    IF Includes(command, "brightness-contrast") THEN "brightness_contrast"
    ELSE IF Includes(command, "unsharp") THEN "sharpness"
    ELSE IF Includes(command, "despeckle") THEN "denoise"
    ELSE IF Includes(command, "auto-level") THEN "auto_level"
    ELSE IF Includes(command, "normalize") THEN "normalize"
    ELSE "enhancement"

\* Operations of buildSingleOperation that read a field of `parameters`.
ReadsParameters == {"brighten", "enhance", "sharpen", "contrast"}

\* buildSingleOperation throws a TypeError when it reads a field of an
\* undefined `parameters`.
BuildThrows(cmd) == cmd.operation \in ReadsParameters /\ ~cmd.hasParameters

BuildSingleOperation(operation, parameters) ==
    CASE operation = "brighten" ->
           <<"convert", "INPUT", "-brightness-contrast",
             ToString(OrElse(parameters.brightness, 10)) \o "x0", "OUTPUT">>
      [] operation = "enhance" ->
           <<"convert", "INPUT", "-brightness-contrast",
             ToString(parameters.brightness) \o "x" \o ToString(parameters.contrast),
             "-unsharp", "0x" \o ToString(parameters.sharpness), "OUTPUT">>
      [] operation = "sharpen" ->
           <<"convert", "INPUT", "-unsharp",
             "0x" \o ToString(OrElse(parameters.amount, 1)), "OUTPUT">>
      [] operation = "denoise" -> <<"convert", "INPUT", "-despeckle", "OUTPUT">>
      [] operation = "contrast" ->
           <<"convert", "INPUT", "-brightness-contrast",
             "0x" \o ToString(OrElse(parameters.amount, 10)), "OUTPUT">>
      [] operation = "auto-level" -> <<"convert", "INPUT", "-auto-level", "OUTPUT">>
      [] operation = "normalize" -> <<"convert", "INPUT", "-normalize", "OUTPUT">>
      [] OTHER -> <<"convert", "INPUT", "OUTPUT">>

BuildImageMagickCommand(cmd) == BuildSingleOperation(cmd.operation, cmd.parameters)

\* originalName.replace(/\.[^/.]+$/, '') + '_' + operation + '_' + (step+1)
\* + '.' + originalName.split('.').pop(); `step` is 0-based.
GenerateOutputFileName(originalName, operation, step) ==
    LET nameWithoutExt ==
            IF Len(originalName) >= 2 /\ Last(originalName) /= ""
            THEN Join(Front(originalName), ".")
            ELSE Join(originalName, ".")
        ext == Last(originalName)
    IN  nameWithoutExt \o "_" \o operation \o "_" \o ToString(step + 1) \o "." \o ext

\* The message of the value the IPC call rejected with.
IpcErrorMessage == "spawn convert ENOENT"

\* executeCommand without its try/catch: a rejected IPC call leaves the method.
ExecuteCommandNoCatch(command, inputPath, outputPath, hasElectronAPI, ipc) ==
    [threw |-> hasElectronAPI /\ ipc \in {"throwError", "throwValue"},
     value |-> [success |-> ~hasElectronAPI \/ ipc = "ok",
                outputPath |-> IF ~hasElectronAPI \/ ipc = "ok" THEN outputPath
                               ELSE Undefined,
                error |-> IF ~hasElectronAPI \/ ipc = "ok" THEN Undefined
                          ELSE "convert failed",
                command |-> command,
                originalPath |-> inputPath,
                enhancementType |-> ExtractEnhancementType(command)]]

\* executeCommand: the completion of the call (threw says whether an
\* exception left the method) and the EnhancementResult it returned.
ExecuteCommand(command, inputPath, outputPath, hasElectronAPI, ipc) ==
    LET type == ExtractEnhancementType(command)
    IN  IF ~hasElectronAPI
        THEN [threw |-> FALSE,
              value |-> [success |-> TRUE, outputPath |-> outputPath,
                         error |-> Undefined, command |-> command,
                         originalPath |-> inputPath, enhancementType |-> type]]
        ELSE IF ipc \in {"ok", "fail"}
        THEN [threw |-> FALSE,
              value |-> [success |-> (ipc = "ok"),
                         outputPath |-> IF ipc = "ok" THEN outputPath ELSE Undefined,
                         error |-> IF ipc = "ok" THEN Undefined ELSE "convert failed",
                         command |-> command,
                         originalPath |-> inputPath, enhancementType |-> type]]
        ELSE [threw |-> FALSE,
              value |-> [success |-> FALSE, outputPath |-> Undefined,
                         error |-> IF ipc = "throwError" THEN IpcErrorMessage
                                   ELSE "Enhancement failed",
                         command |-> command,
                         originalPath |-> inputPath, enhancementType |-> type]]

\* The entry enhanceBatch records when enhanceImage threw.
BatchErrorResult(path, message) ==
    [success |-> FALSE, outputPath |-> Undefined, error |-> message,
     command |-> <<>>, originalPath |-> path, enhancementType |-> "batch_error"]

\* results[key] = value on a JavaScript object.
Put(obj, key, value) ==
    [k \in DOMAIN obj \cup {key} |-> IF k = key THEN value ELSE obj[k]]

EmptyObject == [k \in {} |-> <<>>]

\* ------------------------------------------------------------------ component values

\* Names of the files a user drops on the component.
DroppedFiles == {"a.jpg", "b.jpg"}

\* What window.api.batchProcessImages can do for one image: resolve with
\* [{success: true, outputPath}], resolve with [{success: false, error}],
\* reject with an Error.
ApiOutcomes == {"ok", "fail", "throw"}

\* job.result of a job that has none.
NoResult == [present |-> FALSE, success |-> FALSE, outputPath |-> Undefined,
             error |-> Undefined]

NoJob == [id |-> 0, file |-> Undefined]

\* The progress loop of mutationFn: for (i = 0; i <= 100; i += 10).
ProgressEnd == 100
ProgressStep == 10

\* enhanceImageBatch: the ProcessingResult it resolves with; it never rejects.
EnhanceImageBatch(file, apiPresent, api) ==
    IF ~apiPresent
    THEN [present |-> TRUE, success |-> TRUE, outputPath |-> "enhanced_" \o file,
          error |-> Undefined]
    ELSE IF api = "ok"
    THEN [present |-> TRUE, success |-> TRUE, outputPath |-> "/cache/" \o file,
          error |-> Undefined]
    ELSE IF api = "fail"
    THEN [present |-> TRUE, success |-> FALSE, outputPath |-> "",
          error |-> "convert failed"]
    ELSE [present |-> TRUE, success |-> FALSE, outputPath |-> "",
          error |-> IpcErrorMessage]

\* ------------------------------------------------------------------ compiler values

\* The ten adjustment dimensions of EnhancementSettings; 0 is neutral.
AdjustmentKeys ==
    { "brightness", "contrast", "saturation", "exposure", "highlights", "shadows",
      "temperature", "tint", "sharpening", "noiseReduction" }

\* The settings the compilers are run on.  `exposure` is in tenths of a stop
\* (the slider moves in steps of 0.1): 5 is exposure 0.5, -10 is exposure -1.
SettingsSpace ==
    [ brightness : {0, 10}, contrast : {0, -5}, saturation : {0, 20, -30},
      exposure : {-10, -5, 0, 5, 10, 20}, highlights : {0, 30}, shadows : {0, -20},
      temperature : {0, 50}, tint : {0, -40}, sharpening : {0, 50},
      noiseReduction : {0, 25}, format : {"jpeg", "png"}, quality : {90},
      resize : BOOLEAN, width : {1920}, height : {1080},
      maintainAspectRatio : BOOLEAN ]

\* useState<EnhancementSettings>({...}): the settings the component starts with.
DefaultSettings ==
    [ brightness |-> 0, contrast |-> 0, saturation |-> 0, exposure |-> 0,
      highlights |-> 0, shadows |-> 0, temperature |-> 0, tint |-> 0,
      sharpening |-> 50, noiseReduction |-> 0, format |-> "jpeg", quality |-> 90,
      resize |-> FALSE, width |-> 1920, height |-> 1080,
      maintainAspectRatio |-> TRUE ]

\* The temporary files of the imagemagick:batchProcess handler.
tempInputPath == "temp/input_1_a.jpg"
tempOutputPath == "temp/output_1_a.jpg"

RECURSIVE Pow(_, _)
Pow(b, k) == IF k = 0 THEN 1 ELSE b * Pow(b, k - 1)

\* n written with exactly k decimal digits.
RECURSIVE Digits(_, _)
Digits(n, k) == IF k = 0 THEN "" ELSE Digits(n \div 10, k - 1) \o ToString(n % 10)

\* Number.prototype.toString of the number n / 10^scale: the shortest decimal,
\* no trailing zeros, no decimal point for an integer.
RECURSIVE NumberToString(_, _)
NumberToString(n, scale) ==
    IF n < 0 THEN "-" \o NumberToString(0 - n, scale)
    ELSE IF scale = 0 THEN ToString(n)
    ELSE IF n % 10 = 0 THEN NumberToString(n \div 10, scale - 1)
    ELSE ToString(n \div Pow(10, scale)) \o "." \o Digits(n % Pow(10, scale), scale)

\* Math.abs
Abs(n) == IF n < 0 THEN 0 - n ELSE n

\* String.prototype.toUpperCase on the format names.
ToUpperCase(format) ==
    CASE format = "jpeg" -> "JPEG"
      [] format = "png" -> "PNG"
      [] format = "tiff" -> "TIFF"
      [] format = "webp" -> "WEBP"

\* A linear exposure scale: (1 + exposure).toString().
ExposureValueLinear(exposure) == NumberToString(10 + exposure, 1)

\* Math.pow(2, settings.exposure).toString(), exposure in tenths of a stop.
\* A whole stop gives a dyadic number, written exactly (2^-k = 5^k / 10^k);
\* half a stop gives the double nearest to the square root of 2 or of 1/2.
ExposureValue(exposure) ==
    IF exposure % 10 = 0
    THEN IF exposure >= 0
         THEN NumberToString(Pow(2, exposure \div 10), 0)
         ELSE NumberToString(Pow(5, (0 - exposure) \div 10), (0 - exposure) \div 10)
    ELSE CASE exposure = 5 -> "1.4142135623730951"
           [] exposure = -5 -> "0.7071067811865476"

\* generateColorMatrix: the factors are 1 + temperature/1000 and
\* 1 + 5*tint/10000, written as decimals.
GenerateColorMatrix(temperature, tint) ==
    LET tempFactor == NumberToString(1000 + temperature, 3)
        tintFactor == NumberToString(10000 + 5 * tint, 4)
    IN  tempFactor \o " 0 0 0 " \o tintFactor \o " 0 1 0 0 0 0 0 1"

\* An instruction of the settings compilers: {operation, params}; an
\* instruction without params has the empty list.
Instruction(operation, params) == [operation |-> operation, params |-> params]

Optional(condition, instruction) == IF condition THEN <<instruction>> ELSE <<>>

BrightnessContrast(s) ==
    Optional(s.brightness /= 0 \/ s.contrast /= 0,
             Instruction("brightness-contrast",
                         <<ToString(s.brightness) \o "x" \o ToString(s.contrast)>>))

Modulate(s) ==
    Optional(s.saturation /= 0,
             Instruction("modulate", <<"100," \o ToString(100 + s.saturation) \o ",100">>))

Evaluate(s) ==
    Optional(s.exposure /= 0,
             Instruction("evaluate", <<"multiply", ExposureValue(s.exposure)>>))

ShadowsHighlights(s) ==
    Optional(s.highlights /= 0 \/ s.shadows /= 0,
             Instruction("shadows-highlights",
                         <<ToString(Abs(s.shadows)) \o "x" \o ToString(Abs(s.highlights))>>))

ColorMatrix(s) ==
    Optional(s.temperature /= 0 \/ s.tint /= 0,
             Instruction("color-matrix", <<GenerateColorMatrix(s.temperature, s.tint)>>))

Unsharp(s) ==
    LET radius == NumberToString(2 * s.sharpening, 2)
    IN  Optional(s.sharpening > 0,
                 Instruction("unsharp",
                             <<radius \o "x1+" \o NumberToString(s.sharpening, 2) \o "+0">>))

Despeckle(s) == Optional(s.noiseReduction > 0, Instruction("despeckle", <<>>))

\* The geometry of resize with the two suffixes exchanged.
GeometrySwapped(s) ==
    IF s.maintainAspectRatio
    THEN ToString(s.width) \o "x" \o ToString(s.height) \o "!"
    ELSE ToString(s.width) \o "x" \o ToString(s.height) \o ">"

Geometry(s) ==
    IF s.maintainAspectRatio
    THEN ToString(s.width) \o "x" \o ToString(s.height) \o ">"
    ELSE ToString(s.width) \o "x" \o ToString(s.height) \o "!"

Resize(s) == Optional(s.resize, Instruction("resize", <<Geometry(s)>>))

Format(s) == <<Instruction("format", <<ToUpperCase(s.format)>>)>>

Quality(s) == Optional(s.format = "jpeg", Instruction("quality", <<ToString(s.quality)>>))

\* ImageProcessor.generateEnhancementCommands (renderer).
GenerateEnhancementCommands(s) ==
    BrightnessContrast(s) \o Modulate(s) \o Evaluate(s) \o ShadowsHighlights(s)
        \o ColorMatrix(s) \o Unsharp(s) \o Despeckle(s) \o Resize(s)
        \o Format(s) \o Quality(s)

\* A main-process compiler that emits despeckle before unsharp.
GenerateCommandsFromSettingsReordered(s) ==
    BrightnessContrast(s) \o Modulate(s) \o Evaluate(s) \o Despeckle(s) \o Unsharp(s)
        \o Resize(s) \o Quality(s)

\* generateCommandsFromSettings (main process).
GenerateCommandsFromSettings(s) ==
    BrightnessContrast(s) \o Modulate(s) \o Evaluate(s) \o Unsharp(s) \o Despeckle(s)
        \o Resize(s) \o Quality(s)

\* What one instruction adds to the command line of the main process.
MainOperation(cmd) ==
    CASE cmd.operation \in {"brightness-contrast", "modulate", "shadows-highlights",
                            "unsharp", "resize", "format", "quality"} ->
             <<"-" \o cmd.operation, cmd.params[1]>>
      [] cmd.operation = "evaluate" -> <<"-evaluate", cmd.params[1], cmd.params[2]>>
      [] cmd.operation = "color-matrix" -> <<"-color-matrix", "\"" \o cmd.params[1] \o "\"">>
      [] cmd.operation = "despeckle" -> <<"-despeckle">>
      [] OTHER -> <<>>

RECURSIVE MainOperations(_)
MainOperations(commands) ==
    IF commands = <<>> THEN <<>>
    ELSE MainOperation(Head(commands)) \o MainOperations(Tail(commands))

\* buildImageMagickCommand of the main process.
MainBuildImageMagickCommand(inputPath, outputPath, commands) ==
    <<"magick", "\"" \o inputPath \o "\"">> \o MainOperations(commands)
        \o <<"\"" \o outputPath \o "\"">>

\* ------------------------------------------------------------------ state

VARIABLES
    images,             \* enhanceBatch: the batch (path, analysis.filename, analysis.commands)
    hasElectronAPI,     \* window.electronAPI is present
    hasOnProgress,      \* enhanceBatch was given an onProgress callback
    pc,                 \* enhanceBatch: "loop" | "instr" | "done" | "threw"
    i,                  \* enhanceBatch: loop index (0-based)
    step,               \* enhanceImage: loop index (0-based)
    currentInputPath,   \* enhanceImage: currentInputPath
    jobResults,         \* enhanceImage: results
    results,            \* enhanceBatch: results, keyed by image path
    progress,           \* the observations onProgress received, in order
    calls,              \* per job (1-based), the executeCommand calls made for it
    attempted,          \* the jobs (1-based) enhanceImage was called for
    caught,             \* the jobs (1-based) whose exception enhanceBatch caught
    run,                \* 1: the run; 2: its replay with the executor failing for failJob
    failJob,            \* the job (1-based) the replay fails, 0 in the first run
    firstResults,       \* what the first run returned
    firstCalls          \* the calls of the first run

engineVars == <<images, hasElectronAPI, hasOnProgress, pc, i, step, currentInputPath,
                jobResults, results, progress, calls, attempted, caught>>

pairVars == <<run, failJob, firstResults, firstCalls>>

VARIABLES
    jobs,               \* BatchEnhancement: jobs (useState)
    isProcessing,       \* BatchEnhancement: isProcessing (useState)
    hasApi,             \* window.api.batchProcessImages is present
    mpc,                \* mutationFn: "idle" | "enhancing" | "progress"
    queue,              \* mutationFn: the jobs of jobsToProcess not yet begun
    cur,                \* mutationFn: job (loop variable)
    curResult,          \* mutationFn: result
    loopI,              \* mutationFn: i of the progress loop
    nextId,             \* the unique part of the next job id
    processed,          \* per job id, how often enhanceImageBatch was called for it
    inFlight,           \* the calls of mutationFn that have not returned
    uiSettings,         \* BatchEnhancement: settings (useState)
    runSettings,        \* mutationFn: the settings its closure holds (the defaults
                        \* while no mutationFn runs)
    passed              \* the settings enhanceImageBatch was called with in this run

settingsVars == <<uiSettings, runSettings, passed>>

uiVars == <<jobs, isProcessing, hasApi, mpc, queue, cur, curResult, loopI, nextId, processed,
            inFlight, settingsVars>>

VARIABLES
    settings,           \* the EnhancementSettings handed to the compilers
    cpc,                \* compilers: "idle" | "main" | "command" | "renderer" | "done"
    mainCommands,       \* what generateCommandsFromSettings returned
    mainCommand,        \* what the main-process buildImageMagickCommand returned
    rendererCommands    \* what generateEnhancementCommands returned

compilerVars == <<settings, cpc, mainCommands, mainCommand, rendererCommands>>

VARIABLES
    sessionId,          \* ImageProcessor: sessionId (0 is null)
    cacheDir,           \* ImageProcessor: cacheDir (0 is null, n the cache of session n)
    spc,                \* "idle" | "creating" | "cleaning": the await a call is at
    hasCreateSessionCache,  \* window.api.createSessionCache is present
    hasCleanupSession,  \* window.api.cleanupSession is present
    nextUuid,           \* the next value of uuidv4()
    sessionReturn       \* how the last call ended

sessionVars == <<sessionId, cacheDir, spc, hasCreateSessionCache, hasCleanupSession,
                 nextUuid, sessionReturn>>

VARIABLES
    filePaths,          \* processMultipleImages: filePaths
    mHasApi,            \* window.api.processImageFile is present
    mpi,                \* processMultipleImages: i
    mResults,           \* processMultipleImages: results
    mErrors,            \* processMultipleImages: errors
    mProcessed,         \* the file paths processImageFile was called with, in order
    mReturned           \* processMultipleImages has returned

multipleVars == <<filePaths, mHasApi, mpi, mResults, mErrors, mProcessed, mReturned>>

VARIABLES
    rawIsProcessing,    \* RAWImport: isProcessing (useState)
    rawImages,          \* RAWImport: images (useState)
    imports,            \* the calls of processSelectedFiles, in the order they started
    appended            \* per import, how often its images were appended

importVars == <<rawIsProcessing, rawImages, imports, appended>>

VARIABLES
    aImages,            \* analyzeBatch: the number of images
    aHasOnProgress,     \* analyzeBatch: onProgress is given
    aState,             \* per image: "waiting" | "running" | "analysed" | "default"
    aChunk,             \* analyzeBatch: i, the start of the chunk (0-based)
    aPc,                \* "chunk" (loop head) | "all" (Promise.all) | "delay" | "done"
    aCompleted,         \* analyzeBatch: completed
    aProgress,          \* the observations given to onProgress, in order
    aResults            \* analyzeBatch: results

analyzeVars == <<aImages, aHasOnProgress, aState, aChunk, aPc, aCompleted, aProgress,
                 aResults>>

VARIABLES
    responses,          \* what the assistant answered, per image to analyse
    analyses,           \* the ImageAnalysisResult analyzeImage returned, per image
    culled,             \* getCullingRecommendations has returned
    keep,               \* its keep list
    discard,            \* its discard list
    review              \* its review list

cullingVars == <<responses, analyses, culled, keep, discard, review>>

VARIABLES
    hImages,            \* imagemagick:batchProcess / editBatch: images (names)
    hpc,                \* "process" | "batch" | "edit" | "done": what runs next
    hi,                 \* the loop index of the running batch (0-based)
    singleCall,         \* the call of imagemagick:processImage and what its command did
    singleResult,       \* what imagemagick:processImage returned
    batchOutcomes,      \* per pushed result: the image (1-based) and what happened
    batchResults,       \* imagemagick:batchProcess: results
    editOutcomes,       \* per image, what editImage met
    editResults,        \* editBatch: results
    hThrew              \* a handler or editBatch threw

handlerVars == <<hImages, hpc, hi, singleCall, singleResult, batchOutcomes, batchResults,
                 editOutcomes, editResults, hThrew>>

serviceVars == <<sessionVars, multipleVars, importVars, analyzeVars, cullingVars,
                 handlerVars>>

vars == <<engineVars, pairVars, uiVars, compilerVars, serviceVars>>

Batches == UNION { [1..n -> Items] : n \in 0..MaxJobs }

EngineStart ==
    /\ pc = "loop"
    /\ i = 0
    /\ step = 0
    /\ currentInputPath = Undefined
    /\ jobResults = <<>>
    /\ results = EmptyObject
    /\ progress = <<>>
    /\ calls = [j \in 1..Len(images) |-> <<>>]
    /\ attempted = {}
    /\ caught = {}

PairStart ==
    /\ run = 1
    /\ failJob = 0
    /\ firstResults = EmptyObject
    /\ firstCalls = <<>>

SessionIdle ==
    /\ sessionId = 0
    /\ cacheDir = 0
    /\ spc = "idle"
    /\ hasCreateSessionCache = FALSE
    /\ hasCleanupSession = FALSE
    /\ nextUuid = 1
    /\ sessionReturn = "none"

MultipleIdle ==
    /\ filePaths = <<>>
    /\ mHasApi = FALSE
    /\ mpi = 0
    /\ mResults = <<>>
    /\ mErrors = <<>>
    /\ mProcessed = <<>>
    /\ mReturned = FALSE

ImportIdle ==
    /\ rawIsProcessing = FALSE
    /\ rawImages = <<>>
    /\ imports = <<>>
    /\ appended = <<>>

AnalyzeIdle ==
    /\ aImages = 0
    /\ aHasOnProgress = FALSE
    /\ aState = <<>>
    /\ aChunk = 0
    /\ aPc = "done"
    /\ aCompleted = 0
    /\ aProgress = <<>>
    /\ aResults = <<>>

CullingIdle ==
    /\ responses = <<>>
    /\ analyses = <<>>
    /\ culled = FALSE
    /\ keep = <<>>
    /\ discard = <<>>
    /\ review = <<>>

HandlersStart ==
    /\ hi = 0
    /\ singleCall = <<>>
    /\ singleResult = <<>>
    /\ batchOutcomes = <<>>
    /\ batchResults = <<>>
    /\ editOutcomes = <<>>
    /\ editResults = <<>>
    /\ hThrew = FALSE

HandlersIdle ==
    /\ hImages = <<>>
    /\ hpc = "done"
    /\ HandlersStart

CompilerIdle ==
    /\ settings = DefaultSettings
    /\ cpc = "idle"
    /\ mainCommands = <<>>
    /\ mainCommand = <<>>
    /\ rendererCommands = <<>>

ComponentStart ==
    /\ jobs = <<>>
    /\ isProcessing = FALSE
    /\ mpc = "idle"
    /\ queue = <<>>
    /\ cur = NoJob
    /\ curResult = NoResult
    /\ loopI = 0
    /\ nextId = 1
    /\ processed = [id \in 1..MaxIds |-> 0]
    /\ inFlight = 0
    /\ uiSettings = DefaultSettings
    /\ runSettings = DefaultSettings
    /\ passed = {}

\* A batch handed to enhanceBatch; the component is not mounted.
Init ==
    /\ images \in Batches
    /\ hasElectronAPI \in BOOLEAN
    /\ hasOnProgress \in BOOLEAN
    /\ EngineStart
    /\ PairStart
    /\ hasApi = FALSE
    /\ ComponentStart
    /\ CompilerIdle
    /\ SessionIdle /\ MultipleIdle /\ ImportIdle /\ AnalyzeIdle /\ CullingIdle /\ HandlersIdle

\* The mounted component; enhanceBatch is not running.
InitComponent ==
    /\ images = <<>>
    /\ hasElectronAPI = FALSE
    /\ hasOnProgress = FALSE
    /\ EngineStart
    /\ PairStart
    /\ hasApi \in BOOLEAN
    /\ ComponentStart
    /\ CompilerIdle
    /\ SessionIdle /\ MultipleIdle /\ ImportIdle /\ AnalyzeIdle /\ CullingIdle /\ HandlersIdle

\* ------------------------------------------------------------------ enhanceBatch

\* The message of the TypeError buildSingleOperation throws.
TypeErrorMessage == "Cannot read properties of undefined"

\* What executeImageMagick does for call n (1-based) of job j (1-based): any
\* outcome in the first run; in the replay the executor fails for failJob and
\* repeats the first run's outcome for every other job.
AllowedIpc(j, n) ==
    IF ~hasElectronAPI THEN {"none"}
    ELSE IF run = 1 THEN IpcOutcomes
    ELSE IF j = failJob THEN {"fail"}
    ELSE {firstCalls[j][n].ipc}

\* onProgress called with i + 1 instead of i.
ProgressObservationOffByOne(index, batch) ==
    [completed |-> index + 1, total |-> Len(batch),
     current |-> Join(batch[index + 1].filename, ".")]

\* onProgress(i, images.length, item.analysis.filename)
ProgressObservation(index, batch) ==
    [completed |-> index, total |-> Len(batch),
     current |-> Join(batch[index + 1].filename, ".")]

\* onProgress(images.length, images.length, 'Complete')
FinalObservation(batch) ==
    [completed |-> Len(batch), total |-> Len(batch), current |-> "Complete"]

Observe(obs) == IF hasOnProgress THEN Append(progress, obs) ELSE progress

\* enhanceImage that never advances currentInputPath.
NextInputPathStale(current, result) == current

\* enhanceImage: the input path of the next instruction.
NextInputPath(current, result) ==
    IF result.success /\ result.outputPath /= Undefined
    THEN result.outputPath
    ELSE current

\* enhanceBatch, try branch: results[item.path] = enhancementResults; next i.
StoreResults(path, enhancementResults) ==
    /\ results' = Put(results, path, enhancementResults)
    /\ i' = i + 1
    /\ pc' = "loop"
    /\ UNCHANGED caught

\* enhanceBatch without its try/catch: the exception leaves enhanceBatch.
CatchErrorRethrows(path, message) ==
    /\ pc' = "threw"
    /\ UNCHANGED <<results, i, caught>>

\* enhanceBatch, catch branch: one batch_error entry for the job; next i.
CatchError(path, message) ==
    /\ results' = Put(results, path, <<BatchErrorResult(path, message)>>)
    /\ i' = i + 1
    /\ pc' = "loop"
    /\ caught' = caught \cup {i + 1}

\* Loop head of enhanceBatch: report progress and enter enhanceImage, which
\* returns [] at once for an analysis without commands.
BeginJob ==
    /\ pc = "loop"
    /\ i < Len(images)
    /\ LET item == images[i + 1]
       IN  /\ progress' = Observe(ProgressObservation(i, images))
           /\ attempted' = attempted \cup {i + 1}
           /\ IF Len(item.commands) = 0
              THEN /\ StoreResults(item.path, <<>>)
                   /\ UNCHANGED <<step, currentInputPath, jobResults>>
              ELSE /\ pc' = "instr"
                   /\ step' = 0
                   /\ currentInputPath' = item.path
                   /\ jobResults' = <<>>
                   /\ UNCHANGED <<i, results, caught>>
    /\ UNCHANGED <<images, hasElectronAPI, hasOnProgress, calls, pairVars, uiVars, compilerVars, serviceVars>>

\* One iteration of the loop of enhanceImage whose command builds: run the
\* command, push its result, chain the input path; after the last instruction
\* enhanceImage returns and enhanceBatch stores what it returned.
ExecuteInstruction ==
    /\ pc = "instr"
    /\ step < Len(images[i + 1].commands)
    /\ ~BuildThrows(images[i + 1].commands[step + 1])
    /\ \E ipc \in AllowedIpc(i + 1, Len(calls[i + 1]) + 1) :
         LET item == images[i + 1]
             cmd == item.commands[step + 1]
             outputFileName == GenerateOutputFileName(item.filename, cmd.operation, step)
             outputPath == outputDir \o "/" \o outputFileName
             command == BuildImageMagickCommand(cmd)
             done == ExecuteCommand(command, currentInputPath, outputPath,
                                    hasElectronAPI, ipc)
             result == done.value
         IN  /\ calls' = [calls EXCEPT ![i + 1] =
                             Append(@, [step |-> step, command |-> command,
                                        inputPath |-> currentInputPath,
                                        outputPath |-> outputPath, ipc |-> ipc,
                                        threw |-> done.threw, result |-> result])]
             /\ IF done.threw
                THEN /\ CatchError(item.path, IpcErrorMessage)
                     /\ UNCHANGED <<step, currentInputPath, jobResults>>
                ELSE /\ jobResults' = Append(jobResults, result)
                     /\ currentInputPath' = NextInputPath(currentInputPath, result)
                     /\ step' = step + 1
                     /\ IF step + 1 = Len(item.commands)
                        THEN StoreResults(item.path, Append(jobResults, result))
                        ELSE UNCHANGED <<i, pc, results, caught>>
    /\ UNCHANGED <<images, hasElectronAPI, hasOnProgress, progress, attempted, pairVars, uiVars, compilerVars, serviceVars>>

\* One iteration of the loop of enhanceImage whose command does not build:
\* buildImageMagickCommand throws, enhanceImage rejects, enhanceBatch catches.
InstructionThrows ==
    /\ pc = "instr"
    /\ step < Len(images[i + 1].commands)
    /\ BuildThrows(images[i + 1].commands[step + 1])
    /\ CatchError(images[i + 1].path, TypeErrorMessage)
    /\ UNCHANGED <<images, hasElectronAPI, hasOnProgress, step, currentInputPath,
                   jobResults, progress, calls, attempted, pairVars, uiVars, compilerVars, serviceVars>>

\* After the loop: the final observation, then return results.
BatchReturn ==
    /\ pc = "loop"
    /\ i = Len(images)
    /\ progress' = Observe(FinalObservation(images))
    /\ pc' = "done"
    /\ UNCHANGED <<images, hasElectronAPI, hasOnProgress, i, step, currentInputPath,
                   jobResults, results, calls, attempted, caught, pairVars, uiVars, compilerVars, serviceVars>>

Next ==
    \/ BeginJob
    \/ ExecuteInstruction
    \/ InstructionThrows
    \/ BatchReturn

Spec == Init /\ [][Next]_vars

\* ------------------------------------------------------------------ two runs

\* The executor did not fail for job k in the first run.
ExecutorSucceededFor(k) ==
    /\ Len(calls[k]) > 0
    /\ \A n \in 1..Len(calls[k]) : calls[k][n].ipc = "ok"

\* Run the same batch again; this time the executor fails for job k.
Rerun(k) ==
    /\ run = 1
    /\ pc = "done"
    /\ hasElectronAPI
    /\ ExecutorSucceededFor(k)
    /\ run' = 2
    /\ failJob' = k
    /\ firstResults' = results
    /\ firstCalls' = calls
    /\ pc' = "loop"
    /\ i' = 0
    /\ step' = 0
    /\ currentInputPath' = Undefined
    /\ jobResults' = <<>>
    /\ results' = EmptyObject
    /\ progress' = <<>>
    /\ calls' = [j \in 1..Len(images) |-> <<>>]
    /\ attempted' = {}
    /\ caught' = {}
    /\ UNCHANGED <<images, hasElectronAPI, hasOnProgress, uiVars, compilerVars, serviceVars>>

NextPair ==
    \/ Next
    \/ \E k \in 1..Len(images) : Rerun(k)

SpecPair == Init /\ [][NextPair]_vars

\* ------------------------------------------------------------------ BatchEnhancement

\* prev.map(j => j.id === id ? { ...j, status: 'processing' } : j)
SetProcessing(js, id) ==
    [n \in 1..Len(js) |->
        IF js[n].id = id THEN [js[n] EXCEPT !.status = "processing"] ELSE js[n]]

\* prev.map(j => ({ ...j, progress: value })): the update without the id test.
SetProgressAll(js, id, value) ==
    [n \in 1..Len(js) |-> [js[n] EXCEPT !.progress = value]]

\* prev.map(j => j.id === id ? { ...j, progress: value } : j)
SetProgress(js, id, value) ==
    [n \in 1..Len(js) |->
        IF js[n].id = id THEN [js[n] EXCEPT !.progress = value] ELSE js[n]]

\* prev.map(j => j.id === id
\*   ? { ...j, status: 'completed', progress: 100, result } : j)
SetCompleted(js, id, result) ==
    [n \in 1..Len(js) |->
        IF js[n].id = id
        THEN [js[n] EXCEPT !.status = "completed", !.progress = 100, !.result = result]
        ELSE js[n]]

IsPending(j) == j.status = "pending"

\* handleStartProcessing that takes every job of the list.
PendingJobsAll(js) == js

\* jobs.filter(job => job.status === 'pending')
PendingJobs(js) == SelectSeq(js, IsPending)

\* A mutationFn that takes only the first of the jobs it was started for.
JobsToProcessFirst(js, jobIds) ==
    LET Chosen(j) == j.id \in jobIds
        chosen == SelectSeq(js, Chosen)
    IN  [n \in 1..(IF Len(chosen) > 0 THEN 1 ELSE 0) |->
            [id |-> chosen[n].id, file |-> chosen[n].file]]

\* jobs.filter(job => jobIds.includes(job.id)), as {id, file} snapshots.
JobsToProcess(js, jobIds) ==
    LET Chosen(j) == j.id \in jobIds
        chosen == SelectSeq(js, Chosen)
    IN  [n \in 1..Len(chosen) |-> [id |-> chosen[n].id, file |-> chosen[n].file]]

IdsOf(js) == {js[n].id : n \in 1..Len(js)}

\* Head of the for loop of mutationFn on jobs value js and remaining jobs q:
\* mark the job processing and call enhanceImageBatch for it.
BeginQueued(js, q) ==
    LET job == Head(q)
    IN  /\ jobs' = SetProcessing(js, job.id)
        /\ cur' = job
        /\ queue' = Tail(q)
        /\ processed' = [processed EXCEPT ![job.id] = @ + 1]
        /\ mpc' = "enhancing"

\* The settings the sliders of the settings panel can be moved to.
SliderSettings == {DefaultSettings, [DefaultSettings EXCEPT !.saturation = 20]}

\* mutationFn reading the settings of the latest render at every call.
ClosureSettingsLatest(captured, current) == current

\* The `settings` mutationFn passes to enhanceImageBatch: the constant of the
\* render whose mutationFn was started, whatever the component state is now.
ClosureSettings(captured, current) == captured

\* A Start Enhancement button that stays enabled while a batch is processed.
StartEnabledAlways(js, processing) ==
    /\ Len(js) > 0
    /\ Len(SelectSeq(js, IsPending)) > 0

\* The Start Enhancement button is rendered and not disabled.
StartEnabled(js, processing) ==
    /\ Len(js) > 0
    /\ ~processing
    /\ Len(SelectSeq(js, IsPending)) > 0

\* onDrop: one pending job per accepted file, appended to the list.
OnDrop ==
    /\ nextId <= MaxIds
    /\ \E n \in 1..(MaxIds - nextId + 1) : \E acceptedFiles \in [1..n -> DroppedFiles] :
         LET newJobs == [k \in 1..n |-> [id |-> nextId + k - 1,
                                          file |-> acceptedFiles[k],
                                          status |-> "pending",
                                          progress |-> 0,
                                          result |-> NoResult,
                                          error |-> Undefined]]
         IN  /\ jobs' = jobs \o newJobs
             /\ nextId' = nextId + n
    /\ UNCHANGED <<isProcessing, hasApi, mpc, queue, cur, curResult, loopI, processed,
                   inFlight, settingsVars, engineVars, pairVars, compilerVars, serviceVars>>

\* The Start Enhancement button, enabled while nothing is processing and a job
\* is pending: handleStartProcessing, then mutationFn up to its first await.
HandleStartProcessing ==
    /\ StartEnabled(jobs, isProcessing)
    /\ LET pendingJobs == PendingJobs(jobs)
       IN  /\ Len(pendingJobs) > 0
           /\ isProcessing' = TRUE
           /\ inFlight' = inFlight + 1
           /\ runSettings' = uiSettings
           /\ passed' = {ClosureSettings(uiSettings, uiSettings)}
           /\ BeginQueued(jobs, JobsToProcess(jobs, IdsOf(pendingJobs)))
    /\ UNCHANGED <<hasApi, curResult, loopI, nextId, uiSettings, engineVars, pairVars,
                   compilerVars, serviceVars>>

\* enhanceImageBatch resolves; the progress loop starts with i = 0.
EnhanceSettles ==
    /\ mpc = "enhancing"
    /\ \E api \in (IF hasApi THEN ApiOutcomes ELSE {"none"}) :
         curResult' = EnhanceImageBatch(cur.file, hasApi, api)
    /\ loopI' = 0
    /\ jobs' = SetProgress(jobs, cur.id, 0)
    /\ mpc' = "progress"
    /\ UNCHANGED <<isProcessing, hasApi, queue, cur, nextId, processed, inFlight,
                   settingsVars, engineVars, pairVars, compilerVars, serviceVars>>

\* The 50 ms timer of the progress loop fires and the loop goes on.
ProgressTick ==
    /\ mpc = "progress"
    /\ loopI + ProgressStep <= ProgressEnd
    /\ loopI' = loopI + ProgressStep
    /\ jobs' = SetProgress(jobs, cur.id, loopI + ProgressStep)
    /\ UNCHANGED <<isProcessing, hasApi, mpc, queue, cur, curResult, nextId, processed,
                   inFlight, settingsVars, engineVars, pairVars, compilerVars, serviceVars>>

\* The timer fires and the progress loop ends: the job is marked completed
\* with the result; then the next job begins, or mutationFn returns and
\* onSettled resets isProcessing.
JobCompleted ==
    /\ mpc = "progress"
    /\ loopI + ProgressStep > ProgressEnd
    /\ LET updated == SetCompleted(jobs, cur.id, curResult)
       IN  IF Len(queue) > 0
           THEN /\ BeginQueued(updated, queue)
                /\ passed' = passed \cup {ClosureSettings(runSettings, uiSettings)}
                /\ UNCHANGED <<isProcessing, inFlight, runSettings>>
           ELSE /\ jobs' = updated
                /\ mpc' = "idle"
                /\ isProcessing' = FALSE
                /\ inFlight' = inFlight - 1
                /\ runSettings' = DefaultSettings
                /\ passed' = {}
                /\ UNCHANGED <<queue, cur, processed>>
    /\ UNCHANGED <<hasApi, curResult, loopI, nextId, uiSettings, engineVars, pairVars,
                   compilerVars, serviceVars>>

\* handleRemoveJob, from the X button of a listed job.
HandleRemoveJob ==
    /\ \E jobId \in IdsOf(jobs) :
         LET Kept(j) == j.id /= jobId
         IN  jobs' = SelectSeq(jobs, Kept)
    /\ UNCHANGED <<isProcessing, hasApi, mpc, queue, cur, curResult, loopI, nextId,
                   processed, inFlight, settingsVars, engineVars, pairVars, compilerVars, serviceVars>>

\* handleClearCompleted, from the button enabled while a job is completed.
HandleClearCompleted ==
    /\ \E n \in 1..Len(jobs) : jobs[n].status = "completed"
    /\ LET Kept(j) == j.status /= "completed"
       IN  jobs' = SelectSeq(jobs, Kept)
    /\ UNCHANGED <<isProcessing, hasApi, mpc, queue, cur, curResult, loopI, nextId,
                   processed, inFlight, settingsVars, engineVars, pairVars, compilerVars, serviceVars>>

\* A slider of the settings panel is moved: setSettings(prev => ({...prev, key: value})).
ChangeSettings ==
    /\ \E value \in SliderSettings \ {uiSettings} : uiSettings' = value
    /\ UNCHANGED <<jobs, isProcessing, hasApi, mpc, queue, cur, curResult, loopI, nextId,
                   processed, inFlight, runSettings, passed, engineVars, pairVars,
                   compilerVars, serviceVars>>

NextComponent ==
    \/ OnDrop
    \/ HandleStartProcessing
    \/ EnhanceSettles
    \/ ProgressTick
    \/ JobCompleted
    \/ HandleRemoveJob
    \/ HandleClearCompleted

SpecComponent == InitComponent /\ [][NextComponent]_vars

\* The component with its settings panel in use.
NextSettings ==
    \/ NextComponent
    \/ ChangeSettings

SpecSettings == InitComponent /\ [][NextSettings]_vars

\* The timers of the progress loop fire and the promise of enhanceImageBatch
\* settles, so a started mutationFn goes on.
SpecComponentFair ==
    /\ SpecComponent
    /\ WF_vars(EnhanceSettles)
    /\ WF_vars(ProgressTick)
    /\ WF_vars(JobCompleted)

\* ------------------------------------------------------------------ compilers

\* A settings object handed to the compilers; nothing else is running.
InitCompile ==
    /\ images = <<>>
    /\ hasElectronAPI = FALSE
    /\ hasOnProgress = FALSE
    /\ EngineStart
    /\ PairStart
    /\ hasApi = FALSE
    /\ ComponentStart
    /\ SessionIdle /\ MultipleIdle /\ ImportIdle /\ AnalyzeIdle /\ CullingIdle /\ HandlersIdle
    /\ settings \in SettingsSpace
    /\ cpc = "main"
    /\ mainCommands = <<>>
    /\ mainCommand = <<>>
    /\ rendererCommands = <<>>

\* imagemagick:batchProcess: const commands = generateCommandsFromSettings(settings)
CompileMain ==
    /\ cpc = "main"
    /\ mainCommands' = GenerateCommandsFromSettings(settings)
    /\ cpc' = "command"
    /\ UNCHANGED <<settings, mainCommand, rendererCommands, engineVars, pairVars, uiVars, serviceVars>>

\* imagemagick:batchProcess: buildImageMagickCommand(inputPath, outputPath, commands)
BuildMain ==
    /\ cpc = "command"
    /\ mainCommand' = MainBuildImageMagickCommand(tempInputPath, tempOutputPath, mainCommands)
    /\ cpc' = "renderer"
    /\ UNCHANGED <<settings, mainCommands, rendererCommands, engineVars, pairVars, uiVars, serviceVars>>

\* ImageProcessor.generateEnhancementCommands(settings)
CompileRenderer ==
    /\ cpc = "renderer"
    /\ rendererCommands' = GenerateEnhancementCommands(settings)
    /\ cpc' = "done"
    /\ UNCHANGED <<settings, mainCommands, mainCommand, engineVars, pairVars, uiVars, serviceVars>>

NextCompile ==
    \/ CompileMain
    \/ BuildMain
    \/ CompileRenderer

SpecCompile == InitCompile /\ [][NextCompile]_vars

\* ------------------------------------------------------------------ main-process handlers

\* State of the other services while one of them is looked at.
BaseIdle ==
    /\ images = <<>>
    /\ hasElectronAPI = FALSE
    /\ hasOnProgress = FALSE
    /\ EngineStart
    /\ PairStart
    /\ hasApi = FALSE
    /\ ComponentStart
    /\ CompilerIdle

ImageNames == {"a.jpg", "b.jpg"}

\* What exec of the magick command does: it ends without error and the
\* output file exists, it ends without error and no output file exists, or
\* it ends with an error.
ExecOutcomes == {"created", "missing", "error"}

\* error.message of a failed exec, of a failed writeFileSync and of a failed
\* unlinkSync.
execMessage == "Command failed: magick"
writeMessage == "ENOSPC: no space left on device, write"
unlinkMessage == "EBUSY: resource busy or locked, unlink"

\* The command lists a renderer sends to imagemagick:processImage: none, a
\* known operation, an unknown one, and a known one without its params.
SingleCommands ==
    { <<>>,
      <<Instruction("modulate", <<"100,120,100">>)>>,
      <<Instruction("vignette", <<>>)>>,
      <<Instruction("resize", <<>>)>> }

\* buildImageMagickCommand reads cmd.params[0] of an instruction that has no
\* params: a TypeError.
MainBuildThrows(commands) ==
    \E n \in 1..Len(commands) :
        /\ commands[n].operation \in {"brightness-contrast", "modulate", "evaluate",
                                      "shadows-highlights", "color-matrix", "unsharp",
                                      "resize", "format", "quality"}
        /\ commands[n].params = <<>>

\* path.join(tempDir, `output_${Date.now()}_${imageData.name}`), the time left out.
TempOutputPath(name) == "temp/output_" \o name

\* The result object of a handler: a field that is absent is Undefined.
HandlerResult(success, outputPath, error, name) ==
    [success |-> success, outputPath |-> outputPath, error |-> error, name |-> name]

\* A handler that reports success whenever the command ended without error.
ExecResultUnchecked(outputPath, exec, name) ==
    IF exec = "error"
    THEN HandlerResult(FALSE, Undefined, execMessage, name)
    ELSE HandlerResult(TRUE, outputPath, Undefined, name)

\* The result built once the command has run: an error of exec, or what
\* fs.existsSync(outputPath) says.
ExecResult(outputPath, exec, name) ==
    IF exec = "error"
    THEN HandlerResult(FALSE, Undefined, execMessage, name)
    ELSE IF exec = "created"
    THEN HandlerResult(TRUE, outputPath, Undefined, name)
    ELSE HandlerResult(FALSE, Undefined, "Output file not created", name)

\* imagemagick:processImage: whether it threw and what it returned.
ProcessImageHandler(commands, outputPath, exec) ==
    [threw |-> FALSE,
     value |-> IF MainBuildThrows(commands)
               THEN HandlerResult(FALSE, Undefined, TypeErrorMessage, Undefined)
               ELSE ExecResult(outputPath, exec, Undefined)]

\* What can happen to one image of imagemagick:batchProcess: writeFileSync
\* succeeds or throws, then the command runs, then unlinkSync of the input
\* file succeeds or throws.
BatchOutcomes ==
    { o \in [write : BOOLEAN, exec : ExecOutcomes, unlink : BOOLEAN] :
        o.write \/ (o.exec = "created" /\ o.unlink) }

\* The results one iteration of imagemagick:batchProcess pushes.
BatchPushes(name, o) ==
    IF ~o.write
    THEN <<HandlerResult(FALSE, Undefined, writeMessage, name)>>
    ELSE <<ExecResult(TempOutputPath(name), o.exec, name)>>
             \o (IF o.unlink THEN <<>>
                 ELSE <<HandlerResult(FALSE, Undefined, unlinkMessage, name)>>)

\* What editImage meets: the edit is written, or something in it throws.
EditOutcomes == {"edited", "failed"}

\* editImage: the EditingResult it resolves with; it never rejects.
EditImage(imageId, o) ==
    IF o = "edited"
    THEN [imageId |-> imageId, success |-> TRUE,
          outputPath |-> "out/" \o imageId \o "_edited.jpeg", error |-> Undefined]
    ELSE [imageId |-> imageId, success |-> FALSE, outputPath |-> "",
          error |-> "Input file is missing"]

\* An image list handed to the main-process handlers and to editBatch.
InitHandlers ==
    /\ BaseIdle
    /\ SessionIdle /\ MultipleIdle /\ ImportIdle /\ AnalyzeIdle /\ CullingIdle
    /\ hImages \in UNION { [1..n -> ImageNames] : n \in 0..MaxImages }
    /\ hpc = "process"
    /\ HandlersStart

handlerFrame == <<engineVars, pairVars, uiVars, compilerVars, sessionVars, multipleVars,
                  importVars, analyzeVars, cullingVars>>

\* imagemagick:processImage, called once.
ProcessImage ==
    /\ hpc = "process"
    /\ \E commands \in SingleCommands : \E exec \in ExecOutcomes :
         LET done == ProcessImageHandler(commands, tempOutputPath, exec)
         IN  /\ singleCall' = <<[commands |-> commands, exec |-> exec]>>
             /\ singleResult' = <<done.value>>
             /\ hThrew' = done.threw
    /\ hpc' = "batch"
    /\ UNCHANGED <<hImages, hi, batchOutcomes, batchResults, editOutcomes, editResults,
                   handlerFrame>>

\* imagemagick:batchProcess: one iteration of its loop.
BatchProcessImage ==
    /\ hpc = "batch"
    /\ hi < Len(hImages)
    /\ \E o \in BatchOutcomes :
         LET pushes == BatchPushes(hImages[hi + 1], o)
         IN  /\ batchResults' = batchResults \o pushes
             /\ batchOutcomes' = batchOutcomes \o
                    [k \in 1..Len(pushes) |-> [image |-> hi + 1, outcome |-> o]]
    /\ hi' = hi + 1
    /\ UNCHANGED <<hImages, hpc, singleCall, singleResult, editOutcomes, editResults,
                   hThrew, handlerFrame>>

\* imagemagick:batchProcess returns results.
BatchProcessReturn ==
    /\ hpc = "batch"
    /\ hi = Len(hImages)
    /\ hpc' = "edit"
    /\ hi' = 0
    /\ UNCHANGED <<hImages, singleCall, singleResult, batchOutcomes, batchResults,
                   editOutcomes, editResults, hThrew, handlerFrame>>

\* editBatch: one iteration of its loop.
EditBatchImage ==
    /\ hpc = "edit"
    /\ hi < Len(hImages)
    /\ \E o \in EditOutcomes :
         /\ editResults' = Append(editResults, EditImage(hImages[hi + 1], o))
         /\ editOutcomes' = Append(editOutcomes, o)
    /\ hi' = hi + 1
    /\ UNCHANGED <<hImages, hpc, singleCall, singleResult, batchOutcomes, batchResults,
                   hThrew, handlerFrame>>

\* editBatch returns results.
EditBatchReturn ==
    /\ hpc = "edit"
    /\ hi = Len(hImages)
    /\ hpc' = "done"
    /\ UNCHANGED <<hImages, hi, singleCall, singleResult, batchOutcomes, batchResults,
                   editOutcomes, editResults, hThrew, handlerFrame>>

NextHandlers ==
    \/ ProcessImage
    \/ BatchProcessImage
    \/ BatchProcessReturn
    \/ EditBatchImage
    \/ EditBatchReturn

SpecHandlers == InitHandlers /\ [][NextHandlers]_vars

\* ------------------------------------------------------------------ RAWImport

\* The mounted RAWImport component.
InitImport ==
    /\ BaseIdle
    /\ SessionIdle /\ MultipleIdle /\ AnalyzeIdle /\ CullingIdle /\ HandlersIdle
    /\ rawIsProcessing = FALSE
    /\ rawImages = <<>>
    /\ imports = <<>>
    /\ appended = <<>>

importFrame == <<engineVars, pairVars, uiVars, compilerVars, sessionVars, multipleVars,
                 analyzeVars, cullingVars, handlerVars>>

\* processSelectedFiles up to its await, for n file paths (n > 0) that came
\* from the drop zone or from the dialog: the component is marked processing
\* and importImages is started.
ProcessSelectedFiles(n, from) ==
    /\ rawIsProcessing' = TRUE
    /\ imports' = Append(imports, [files |-> n, from |-> from, finished |-> FALSE])
    /\ appended' = Append(appended, 0)
    /\ UNCHANGED rawImages

\* The images importImages resolves with when the files in ok are processed
\* and processImageFile throws for the others: one per file, in file order.
ProcessedImages(k, n, ok) ==
    LET all == [f \in 1..n |-> [import |-> k, file |-> f]]
    IN  SelectSeq(all, LAMBDA image : image.file \in ok)

\* handleDrop or handleFileInputChange -> handleFileSelect with valid files;
\* the drop zone takes files at any time.
HandleFileSelect ==
    /\ Len(imports) < MaxImports
    /\ \E n \in 1..MaxFiles : ProcessSelectedFiles(n, "drop")
    /\ UNCHANGED importFrame

\* handleButtonImport with files chosen in the dialog; the button is disabled
\* while isProcessing.
HandleButtonImport ==
    /\ Len(imports) < MaxImports
    /\ ~rawIsProcessing
    /\ \E n \in 1..MaxFiles : ProcessSelectedFiles(n, "dialog")
    /\ UNCHANGED importFrame

\* importImages of import k resolves: processSelectedFiles appends the images
\* and its finally block resets isProcessing.
ImportSettles ==
    /\ \E k \in 1..Len(imports) :
         /\ ~imports[k].finished
         /\ \E ok \in SUBSET (1..imports[k].files) :
              rawImages' = rawImages \o ProcessedImages(k, imports[k].files, ok)
         /\ imports' = [imports EXCEPT ![k].finished = TRUE]
         /\ appended' = [appended EXCEPT ![k] = @ + 1]
    /\ rawIsProcessing' = FALSE
    /\ UNCHANGED importFrame

\* clearImages
ClearImages ==
    /\ rawImages /= <<>>
    /\ rawImages' = <<>>
    /\ UNCHANGED <<rawIsProcessing, imports, appended, importFrame>>

NextImport ==
    \/ HandleFileSelect
    \/ HandleButtonImport
    \/ ImportSettles
    \/ ClearImages

SpecImport == InitImport /\ [][NextImport]_vars

\* ------------------------------------------------------ processMultipleImages

\* SUPPORTED_RAW_FORMATS
SUPPORTED_RAW_FORMATS ==
    {".cr2", ".nef", ".arw", ".raf", ".dng", ".crw", ".cr3", ".pef", ".orf", ".rw2", ".srw"}

\* SUPPORTED_JPEG_FORMATS
SUPPORTED_JPEG_FORMATS == {".jpg", ".jpeg", ".png", ".tiff", ".tif", ".webp"}

\* A file path is the sequence of its pieces between dots, filePath.split('.'):
\* <<"a", "jpg">> is a.jpg and <<"jpg">> is a file named jpg. The paths have
\* no directory part, so fileName is the path itself.
FilePaths == {<<"a", "jpg">>, <<"b", "CR2">>, <<"c", "txt">>, <<"jpg">>}

\* String.prototype.toLowerCase on the pieces in use.
ToLowerCase(piece) ==
    CASE piece = "CR2" -> "cr2"
      [] OTHER -> piece

\* getFileExtension: '.' + filePath.toLowerCase().split('.').pop()
GetFileExtension(filePath) == "." \o ToLowerCase(filePath[Len(filePath)])

\* isSupportedFormat
IsSupportedFormat(filePath) ==
    GetFileExtension(filePath) \in (SUPPORTED_RAW_FORMATS \cup SUPPORTED_JPEG_FORMATS)

\* A call of processMultipleImages: any list of file paths, with or without
\* window.api.processImageFile.
InitMultiple ==
    /\ BaseIdle
    /\ SessionIdle /\ ImportIdle /\ AnalyzeIdle /\ CullingIdle /\ HandlersIdle
    /\ filePaths \in UNION { [1..n -> FilePaths] : n \in 0..MaxFiles }
    /\ mHasApi \in BOOLEAN
    /\ mpi = 0
    /\ mResults = <<>>
    /\ mErrors = <<>>
    /\ mProcessed = <<>>
    /\ mReturned = FALSE

multipleFrame == <<engineVars, pairVars, uiVars, compilerVars, sessionVars, importVars,
                   analyzeVars, cullingVars, handlerVars>>

\* The outcomes of processImageFile: window.api.processImageFile resolves or
\* rejects; the browser fallback always returns a mock image.
ProcessImageFileOutcomes == IF mHasApi THEN {"resolved", "rejected"} ELSE {"resolved"}

\* One iteration of the loop of processMultipleImages, for filePaths[i].
ProcessMultipleStep ==
    /\ ~mReturned
    /\ mpi < Len(filePaths)
    /\ LET filePath == filePaths[mpi + 1]
       IN  IF ~IsSupportedFormat(filePath)
           THEN /\ mErrors' = Append(mErrors, [file |-> filePath, message |-> "Unsupported format"])
                /\ UNCHANGED <<mResults, mProcessed>>
           ELSE /\ mProcessed' = Append(mProcessed, filePath)
                /\ \E outcome \in ProcessImageFileOutcomes :
                     IF outcome = "resolved"
                     THEN /\ mResults' = Append(mResults, [originalPath |-> filePath])
                          /\ UNCHANGED mErrors
                     ELSE /\ mErrors' = Append(mErrors, [file |-> filePath, message |-> "rejected"])
                          /\ UNCHANGED mResults
    /\ mpi' = mpi + 1
    /\ UNCHANGED <<filePaths, mHasApi, mReturned, multipleFrame>>

\* return { results, errors }
ProcessMultipleReturn ==
    /\ ~mReturned
    /\ mpi = Len(filePaths)
    /\ mReturned' = TRUE
    /\ UNCHANGED <<filePaths, mHasApi, mpi, mResults, mErrors, mProcessed, multipleFrame>>

NextMultiple ==
    \/ ProcessMultipleStep
    \/ ProcessMultipleReturn

SpecMultiple == InitMultiple /\ [][NextMultiple]_vars

\* --------------------------------------------------- ImageProcessor session

\* A new ImageProcessor: sessionId and cacheDir are null (0), with any
\* window.api. Session ids are the numbers uuidv4 hands out, and the cache
\* directory of session n is written n.
InitSession ==
    /\ BaseIdle
    /\ MultipleIdle /\ ImportIdle /\ AnalyzeIdle /\ CullingIdle /\ HandlersIdle
    /\ sessionId = 0
    /\ cacheDir = 0
    /\ spc = "idle"
    /\ hasCreateSessionCache \in BOOLEAN
    /\ hasCleanupSession \in BOOLEAN
    /\ nextUuid = 1
    /\ sessionReturn = "none"

sessionFrame == <<engineVars, pairVars, uiVars, compilerVars, multipleVars, importVars,
                  analyzeVars, cullingVars, handlerVars>>

\* initializeSession up to its await, or to its return in the browser fallback.
InitializeSession ==
    /\ spc = "idle"
    /\ nextUuid <= MaxSessions
    /\ sessionId' = nextUuid
    /\ nextUuid' = nextUuid + 1
    /\ IF hasCreateSessionCache
       THEN /\ spc' = "createSessionCache"
            /\ sessionReturn' = "none"
            /\ UNCHANGED cacheDir
       ELSE /\ cacheDir' = nextUuid
            /\ sessionReturn' = "sessionId"
            /\ UNCHANGED spc
    /\ UNCHANGED <<hasCreateSessionCache, hasCleanupSession, sessionFrame>>

\* window.api.createSessionCache settles: initializeSession stores the cache
\* directory and returns the id, or rethrows the rejection.
CreateSessionCacheSettles ==
    /\ spc = "createSessionCache"
    /\ spc' = "idle"
    /\ \/ /\ cacheDir' = sessionId
          /\ sessionReturn' = "sessionId"
       \/ /\ sessionReturn' = "threw"
          /\ UNCHANGED cacheDir
    /\ UNCHANGED <<sessionId, nextUuid, hasCreateSessionCache, hasCleanupSession, sessionFrame>>

\* The end of cleanupSession.
SessionCleared ==
    /\ sessionId' = 0
    /\ cacheDir' = 0
    /\ sessionReturn' = "void"

\* cleanupSession up to its await, or to its return when there is nothing to
\* call.
CleanupSession ==
    /\ spc = "idle"
    /\ IF sessionId /= 0 /\ hasCleanupSession
       THEN /\ spc' = "cleanupSession"
            /\ sessionReturn' = "none"
            /\ UNCHANGED <<sessionId, cacheDir>>
       ELSE /\ SessionCleared
            /\ UNCHANGED spc
    /\ UNCHANGED <<nextUuid, hasCreateSessionCache, hasCleanupSession, sessionFrame>>

\* window.api.cleanupSession settles; a rejection is logged only.
CleanupSessionSettles ==
    /\ spc = "cleanupSession"
    /\ spc' = "idle"
    /\ SessionCleared
    /\ UNCHANGED <<nextUuid, hasCreateSessionCache, hasCleanupSession, sessionFrame>>

NextSession ==
    \/ InitializeSession
    \/ CreateSessionCacheSettles
    \/ CleanupSession
    \/ CleanupSessionSettles

SpecSession == InitSession /\ [][NextSession]_vars

\* ------------------------------------------- AIAnalysisService.analyzeBatch

\* A call of analyzeBatch on images 1..aImages, with or without onProgress.
InitAnalyze ==
    /\ BaseIdle
    /\ SessionIdle /\ MultipleIdle /\ ImportIdle /\ CullingIdle /\ HandlersIdle
    /\ aImages \in 0..MaxAnalysed
    /\ aHasOnProgress \in BOOLEAN
    /\ aState = [k \in 1..aImages |-> "waiting"]
    /\ aChunk = 0
    /\ aPc = "chunk"
    /\ aCompleted = 0
    /\ aProgress = <<>>
    /\ aResults = <<>>

analyzeFrame == <<engineVars, pairVars, uiVars, compilerVars, sessionVars, multipleVars,
                  importVars, cullingVars, handlerVars>>

\* images.slice(i, images.length): the rest of the images.
BatchToEnd(start) == (start + 1)..aImages

\* images.slice(i, i + this.maxBatchSize), as the set of its (1-based) images.
Batch(start) ==
    (start + 1)..(IF start + maxBatchSize < aImages THEN start + maxBatchSize ELSE aImages)

\* stage: completed === total ? 'complete' : 'analyzing'
Stage(completedNow, total) == IF completedNow = total THEN "complete" ELSE "analyzing"

\* onProgress({ completed, total, currentImage, stage }), if given.
OnProgress(completedNow, stage) ==
    IF aHasOnProgress
    THEN Append(aProgress, [completed |-> completedNow, total |-> aImages, stage |-> stage])
    ELSE aProgress

\* The loop head with a chunk left: the first observation, then batch.map
\* starts analyzeImage for every image of the chunk.
AnalyzeBatchStart ==
    /\ aPc = "chunk"
    /\ aChunk < aImages
    /\ aProgress' = OnProgress(aCompleted, "analyzing")
    /\ aState' = [k \in 1..aImages |-> IF k \in Batch(aChunk) THEN "running" ELSE aState[k]]
    /\ aPc' = "all"
    /\ UNCHANGED <<aImages, aHasOnProgress, aChunk, aCompleted, aResults, analyzeFrame>>

\* analyzeImage of one running image resolves, with the analysis or, from its
\* own catch block, with the default analysis; the count goes up and the
\* progress is reported.
AnalyzeImageSettles ==
    /\ aPc = "all"
    /\ \E k \in 1..aImages :
         /\ aState[k] = "running"
         /\ \E outcome \in {"analysed", "default"} :
              aState' = [aState EXCEPT ![k] = outcome]
    /\ aCompleted' = aCompleted + 1
    /\ aProgress' = OnProgress(aCompleted + 1, Stage(aCompleted + 1, aImages))
    /\ UNCHANGED <<aImages, aHasOnProgress, aChunk, aPc, aResults, analyzeFrame>>

\* Promise.all(batchPromises) resolves: results.push(...batchResults), in the
\* order of the chunk; a delay follows when another chunk is left.
AnalyzeAllSettled ==
    /\ aPc = "all"
    /\ \A k \in 1..aImages : aState[k] /= "running"
    /\ aResults' = aResults \o [n \in 1..Cardinality(Batch(aChunk)) |->
                                  [image_id |-> aChunk + n, analysis |-> aState[aChunk + n]]]
    /\ IF aChunk + maxBatchSize < aImages
       THEN aPc' = "delay" /\ UNCHANGED aChunk
       ELSE aPc' = "chunk" /\ aChunk' = aChunk + maxBatchSize
    /\ UNCHANGED <<aImages, aHasOnProgress, aState, aCompleted, aProgress, analyzeFrame>>

\* The timeout between two chunks ends; i += this.maxBatchSize.
AnalyzeDelayEnds ==
    /\ aPc = "delay"
    /\ aPc' = "chunk"
    /\ aChunk' = aChunk + maxBatchSize
    /\ UNCHANGED <<aImages, aHasOnProgress, aState, aCompleted, aProgress, aResults, analyzeFrame>>

\* The loop ends: return results.
AnalyzeBatchReturn ==
    /\ aPc = "chunk"
    /\ aChunk >= aImages
    /\ aPc' = "done"
    /\ UNCHANGED <<aImages, aHasOnProgress, aState, aChunk, aCompleted, aProgress, aResults,
                   analyzeFrame>>

NextAnalyze ==
    \/ AnalyzeBatchStart
    \/ AnalyzeImageSettles
    \/ AnalyzeAllSettled
    \/ AnalyzeDelayEnds
    \/ AnalyzeBatchReturn

SpecAnalyze == InitAnalyze /\ [][NextAnalyze]_vars

\* ------------------------------------ AIAnalysisService culling

\* Scores are written in tenths: 85 is 8.5 and 900 is 90.
\* A score of the assistant is <<n>> for the number n and <<>> when the
\* assistant left it out.
AssistantScores ==
    [sharpness : {<<40>>, <<90>>}, artistry : {<<70>>, <<90>>, <<>>},
     style_match : {<<70>>, <<900>>, <<>>}, blurriness : BOOLEAN]

\* What analyzeImage gets for one image: <<scores>> from the assistant, or
\* <<>> when the conversion, the call or the saving threw.
Responses == {<<scores>> : scores \in AssistantScores} \cup {<<>>}

Min(a, b) == IF a < b THEN a ELSE b

Max(a, b) == IF a > b THEN a ELSE b

\* validateScore: isNaN(parsed) ? defaultValue : Math.max(0, Math.min(10, parsed))
ValidateScore(score, defaultValue) ==
    IF score = <<>> THEN defaultValue ELSE Max(0, Min(100, score[1]))

\* getDefaultAnalysis
GetDefaultAnalysis(imageId) ==
    [image_id |-> imageId,
     scores |-> [sharpness |-> 70, artistry |-> 70, style_match |-> 750, blurriness |-> FALSE]]

\* analyzeImage: the result built from the assistant's answer, or the default
\* analysis from its catch block.
AnalyzeImage(imageId, response) ==
    IF response = <<>>
    THEN GetDefaultAnalysis(imageId)
    ELSE [image_id |-> imageId,
          scores |-> [sharpness |-> ValidateScore(response[1].sharpness, 85),
                      artistry |-> ValidateScore(response[1].artistry, 75),
                      style_match |-> ValidateScore(response[1].style_match, 850),
                      blurriness |-> response[1].blurriness]]

\* The three tests of getCullingRecommendations, in their order.
Recommendation(analysis) ==
    IF analysis.scores.blurriness \/ analysis.scores.sharpness < 50 THEN "discard"
    ELSE IF analysis.scores.artistry >= 80 /\ analysis.scores.style_match >= 800 THEN "keep"
    ELSE "review"

\* The images to analyse and cull, with the assistant's answer for each.
InitCulling ==
    /\ BaseIdle
    /\ SessionIdle /\ MultipleIdle /\ ImportIdle /\ AnalyzeIdle /\ HandlersIdle
    /\ responses \in UNION { [1..n -> Responses] : n \in 0..MaxAnalyses }
    /\ analyses = <<>>
    /\ culled = FALSE
    /\ keep = <<>>
    /\ discard = <<>>
    /\ review = <<>>

cullingFrame == <<engineVars, pairVars, uiVars, compilerVars, sessionVars, multipleVars,
                  importVars, analyzeVars, handlerVars>>

\* analyzeImage returns for the next image.
AnalyzeNextImage ==
    /\ Len(analyses) < Len(responses)
    /\ analyses' = Append(analyses,
                          AnalyzeImage(Len(analyses) + 1, responses[Len(analyses) + 1]))
    /\ UNCHANGED <<responses, culled, keep, discard, review, cullingFrame>>

\* getCullingRecommendations(analyses): forEach pushes each analysis to one
\* list, in order.
GetCullingRecommendations ==
    /\ Len(analyses) = Len(responses)
    /\ ~culled
    /\ culled' = TRUE
    /\ keep' = SelectSeq(analyses, LAMBDA a : Recommendation(a) = "keep")
    /\ discard' = SelectSeq(analyses, LAMBDA a : Recommendation(a) = "discard")
    /\ review' = SelectSeq(analyses, LAMBDA a : Recommendation(a) = "review")
    /\ UNCHANGED <<responses, analyses, cullingFrame>>

NextCulling ==
    \/ AnalyzeNextImage
    \/ GetCullingRecommendations

SpecCulling == InitCulling /\ [][NextCulling]_vars

\* ------------------------------------------------------------------ claims

IsPrefix(s, t) == Len(s) <= Len(t) /\ SubSeq(t, 1, Len(s)) = s

JobIds == 1..Len(images)

\* The results the executor produced for job j, in order.
Produced(j) == [n \in 1..Len(calls[j]) |-> calls[j][n].result]

\* C1, as claimed: two runs of enhanceBatch that differ only in whether the
\* executor fails for job failJob return the same results for every other job.
C1_FailureIsolation ==
    (run = 2 /\ pc = "done") =>
        \A j \in JobIds \ {failJob} :
            results[images[j].path] = firstResults[images[j].path]

\* C2, as claimed: when enhanceBatch returns, every job was attempted and the
\* result set has exactly one entry per job given.
C2_OneEntryPerJob ==
    pc = "done" =>
        /\ attempted = JobIds
        /\ Cardinality(DOMAIN results) = Len(images)

\* C3: the first instruction of a job is run on the job's image path, the
\* instruction after a successful one is run on the output path that one
\* reported, and the instructions are run in list order.
C3_Chaining ==
    \A j \in JobIds : \A n \in 1..Len(calls[j]) :
        LET c == calls[j][n]
        IN  /\ c.step = n - 1
            /\ c.command = BuildImageMagickCommand(images[j].commands[n])
            /\ n = 1 => c.inputPath = images[j].path
            /\ (n > 1 /\ calls[j][n - 1].result.success) =>
                   c.inputPath = calls[j][n - 1].result.outputPath

C3_Witness ==
    \E j \in JobIds : Len(calls[j]) >= 2 /\ calls[j][1].result.success

\* C4, as claimed: once the executor reported failure for an instruction of a
\* job, no later instruction of that job is passed to the executor.
C4_StopAfterFailure ==
    \A j \in JobIds : \A n \in 1..Len(calls[j]) :
        n < Len(calls[j]) => calls[j][n].result.success

\* C5: executeCommand always returns a result; the result carries an output
\* path exactly when success is true, and then the requested one; a rejected
\* IPC call becomes a result with success false and an error message.
C5_ExecuteCommandContract ==
    \A j \in JobIds : \A n \in 1..Len(calls[j]) :
        LET c == calls[j][n]
        IN  /\ ~c.threw
            /\ c.result.success <=> c.result.outputPath /= Undefined
            /\ c.result.success => c.result.outputPath = c.outputPath
            /\ c.ipc \in {"throwError", "throwValue"} =>
                   ~c.result.success /\ c.result.error /= Undefined

C5_Witness ==
    \E j \in JobIds : \E n \in 1..Len(calls[j]) :
        /\ calls[j][n].ipc = "throwError"
        /\ n > 1
        /\ calls[j][n - 1].ipc = "ok"

\* C8: an exception thrown while a job is processed is caught by enhanceBatch,
\* which records exactly one failed result with an error message under that
\* job's key and leaves every other key alone; every job is still attempted
\* and enhanceBatch itself does not throw.
C8_CaughtStep ==
    \A j \in JobIds :
        (j \in caught' /\ j \notin caught) =>
            /\ DOMAIN results' = DOMAIN results \cup {images[j].path}
            /\ \A p \in DOMAIN results : p /= images[j].path => results'[p] = results[p]
            /\ Len(results'[images[j].path]) = 1
            /\ ~results'[images[j].path][1].success
            /\ results'[images[j].path][1].error /= Undefined
            /\ results'[images[j].path][1].originalPath = images[j].path
            /\ i' = j

C9_NoRollback ==
    (pc \in {"loop", "done"} /\ i >= 1) =>
        IsPrefix(Produced(i), results[images[i].path])

\* C10: with a progress callback, observation i (0-based) is
\* (i, N, filename of job i) and is made before the first instruction of job
\* i; the completed values never decrease and never exceed N.
C10_Progress ==
    hasOnProgress =>
        /\ \A n \in 1..Len(progress) :
              /\ n <= Len(images) => progress[n] = [completed |-> n - 1,
                                                    total |-> Len(images),
                                                    current |-> Join(images[n].filename, ".")]
              /\ progress[n].completed <= Len(images)
              /\ n > 1 => progress[n - 1].completed <= progress[n].completed
        /\ \A j \in JobIds : (j \in attempted \/ Len(calls[j]) > 0) => Len(progress) >= j

C10_Witness ==
    /\ hasOnProgress
    /\ Len(images) >= 2
    /\ Len(calls[2]) > 0
    /\ Len(progress) = 2

\* The status changes the job status machine allows.
AllowedTransitions ==
    { <<"pending", "processing">>,
      <<"processing", "completed">>,
      <<"processing", "error">> }

C6_StatusStep ==
    \A a \in 1..Len(jobs) : \A b \in 1..Len(jobs') :
        jobs[a].id = jobs'[b].id =>
            \/ jobs'[b].status = jobs[a].status
            \/ <<jobs[a].status, jobs'[b].status>> \in AllowedTransitions

\* C6: under any interleaving of drop, start, remove, clear-completed and the
\* steps of a batch run, a job's status changes only along
\* pending -> processing -> completed | error, and no job is handed to the
\* enhancer a second time.
C6_StatusMachine ==
    /\ [][C6_StatusStep]_vars
    /\ [](\A id \in 1..MaxIds : processed[id] <= 1)
    /\ [](\A n \in 1..Len(jobs) :
            /\ jobs[n].status \in {"pending", "processing", "completed", "error"}
            /\ jobs[n].status = "pending" => processed[jobs[n].id] = 0)

C6_Witness ==
    /\ isProcessing
    /\ \E a \in 1..Len(jobs) : \E b \in 1..Len(jobs) :
          /\ jobs[a].status = "completed"
          /\ jobs[b].status = "processing"
          /\ jobs[b].id > jobs[a].id
          /\ queue = <<>>
          /\ \E c \in 1..Len(jobs) : jobs[c].status = "pending"

\* C7, as claimed: a job whose enhancement failed has status error and a
\* non-empty error message, and a completed job has a result with success true.
C7_FailureSurfaces ==
    \A n \in 1..Len(jobs) :
        /\ jobs[n].status = "completed" =>
               jobs[n].result.present /\ jobs[n].result.success
        /\ (jobs[n].result.present /\ ~jobs[n].result.success) =>
               jobs[n].status = "error" /\ jobs[n].error \notin {Undefined, ""}

\* The positions (job, call) of the executeCommand calls of the run.
CallPositions == UNION { { <<j, n>> : n \in 1..Len(calls[j]) } : j \in JobIds }

\* C11, as claimed: the output name of step i is
\* <name without extension>_<operation>_<i+1>.<extension>, and no two
\* instruction executions of one run are given the same output path.
C11_CollisionFree ==
    /\ \A p \in CallPositions :
         LET item == images[p[1]]
             c == calls[p[1]][p[2]]
         IN  c.outputPath = outputDir \o "/" \o Join(Front(item.filename), ".") \o "_"
                                \o item.commands[c.step + 1].operation \o "_"
                                \o ToString(c.step + 1) \o "." \o Last(item.filename)
    /\ \A p, q \in CallPositions :
         p /= q => calls[p[1]][p[2]].outputPath /= calls[q[1]][q[2]].outputPath

\* The operation keys buildSingleOperation has a case for.
KnownOperations ==
    { "brighten", "enhance", "sharpen", "denoise", "contrast", "auto-level", "normalize" }

\* C12, as claimed: no executor step is run for an instruction whose
\* operation key is not recognized.
C12_UnknownSkipped ==
    \A p \in CallPositions :
        images[p[1]].commands[calls[p[1]][p[2]].step + 1].operation \in KnownOperations

\* The instructions of a compiled list that have the given operation.
OfOperation(commands, operation) ==
    SelectSeq(commands, LAMBDA c : c.operation = operation)

\* Both compilers have returned.
Compiled == cpc = "done"

\* C13, as claimed: settings with the ten adjustments at 0, resize off,
\* format jpeg and quality 90 compile to the empty instruction list.
C13_NeutralCompilesEmpty ==
    ( /\ Compiled
      /\ \A k \in AdjustmentKeys : settings[k] = 0
      /\ ~settings.resize
      /\ settings.format = "jpeg"
      /\ settings.quality = 90 ) =>
        /\ mainCommands = <<>>
        /\ rendererCommands = <<>>

\* C14, as claimed: settings whose only non-default value is saturation = 20
\* compile to exactly one instruction, modulate "100,120,100"; a non-zero
\* saturation s always gives the modulate parameter "100,<100+s>,100".
C14_OnlySaturation ==
    Compiled =>
        /\ ( /\ settings.saturation = 20
             /\ \A k \in AdjustmentKeys \ {"saturation"} : settings[k] = 0
             /\ ~settings.resize
             /\ settings.format = "jpeg" ) =>
               /\ mainCommands = <<Instruction("modulate", <<"100,120,100">>)>>
               /\ rendererCommands = <<Instruction("modulate", <<"100,120,100">>)>>
        /\ settings.saturation /= 0 =>
               \A commands \in {mainCommands, rendererCommands} :
                   OfOperation(commands, "modulate") =
                       << [operation |-> "modulate",
                           params |-> <<"100," \o ToString(100 + settings.saturation)
                                            \o ",100">>] >>

\* C15: a non-zero exposure e compiles to one evaluate instruction with the
\* parameters (multiply, 2^e): 2 for e = 1, 0.5 for e = -1, 4 for e = 2, the
\* square root of 2 for e = 0.5 and of 1/2 for e = -0.5; exposure 0 compiles
\* to no evaluate instruction.
C15_Exposure ==
    Compiled =>
        \A commands \in {mainCommands, rendererCommands} :
            LET evaluate == OfOperation(commands, "evaluate")
                factor == CASE settings.exposure = 10 -> "2"
                            [] settings.exposure = -10 -> "0.5"
                            [] settings.exposure = 20 -> "4"
                            [] settings.exposure = 5 -> "1.4142135623730951"
                            [] settings.exposure = -5 -> "0.7071067811865476"
            IN  IF settings.exposure = 0
                THEN evaluate = <<>>
                ELSE evaluate = << [operation |-> "evaluate",
                                    params |-> <<"multiply", factor>>] >>

\* A negative exposure has been compiled by both compilers.
C15_Witness ==
    /\ Compiled
    /\ settings.exposure = -10
    /\ OfOperation(mainCommands, "evaluate") /= <<>>
    /\ OfOperation(rendererCommands, "evaluate") /= <<>>

\* C17, as claimed: in the chain compiled for a batch run an instruction is
\* present for an adjustment dimension exactly if its value is not neutral;
\* so highlights or shadows give shadows-highlights, temperature or tint
\* give color-matrix.
C17_EveryDimensionCompiled ==
    Compiled =>
        LET Has(operation) == OfOperation(mainCommands, operation) /= <<>>
        IN  /\ Has("brightness-contrast") <=> (settings.brightness /= 0 \/ settings.contrast /= 0)
            /\ Has("modulate") <=> settings.saturation /= 0
            /\ Has("evaluate") <=> settings.exposure /= 0
            /\ Has("shadows-highlights") <=> (settings.highlights /= 0 \/ settings.shadows /= 0)
            /\ Has("color-matrix") <=> (settings.temperature /= 0 \/ settings.tint /= 0)
            /\ Has("unsharp") <=> settings.sharpening /= 0
            /\ Has("despeckle") <=> settings.noiseReduction /= 0

\* C18: both compilers emit a quality instruction exactly if the format is
\* jpeg, and a resize instruction exactly if resize is set, with the geometry
\* "<width>x<height>>" if maintainAspectRatio is set and "<width>x<height>!"
\* if it is not.
C18_OutputControls ==
    Compiled =>
        \A commands \in {mainCommands, rendererCommands} :
            LET size == ToString(settings.width) \o "x" \o ToString(settings.height)
                suffix == IF settings.maintainAspectRatio THEN ">" ELSE "!"
            IN  /\ OfOperation(commands, "quality") /= <<>> <=> settings.format = "jpeg"
                /\ OfOperation(commands, "resize") =
                       IF settings.resize
                       THEN << [operation |-> "resize", params |-> <<size \o suffix>>] >>
                       ELSE <<>>

\* A forced resize to png has been compiled by both compilers.
C18_Witness ==
    /\ Compiled
    /\ settings.resize
    /\ ~settings.maintainAspectRatio
    /\ settings.format = "png"
    /\ OfOperation(mainCommands, "resize") /= <<>>
    /\ OfOperation(rendererCommands, "resize") /= <<>>
    /\ OfOperation(mainCommands, "quality") = <<>>

\* C19: in the BatchEnhancement component at most one call of mutationFn is
\* in flight and at most one job has status processing, whatever the user
\* does while a batch is processed.
C19_Sequential ==
    /\ inFlight <= 1
    /\ Cardinality({n \in 1..Len(jobs) : jobs[n].status = "processing"}) <= 1

\* A batch is being processed while another job waits in the list: one job
\* is processing beside a pending one.
C19_Witness ==
    /\ inFlight = 1
    /\ isProcessing
    /\ \E n, k \in 1..Len(jobs) : jobs[n].status = "processing" /\ jobs[k].status = "pending"

\* One step of the component: a completed job that stays in the list is not
\* changed, and jobs leave the list only as handleRemoveJob (one job goes) or
\* handleClearCompleted (exactly the completed jobs go) remove them, the
\* other jobs staying as they are and in their order.
C20_Step ==
    LET removed == IdsOf(jobs) \ IdsOf(jobs')
        completed == {jobs[n].id : n \in {k \in 1..Len(jobs) : jobs[k].status = "completed"}}
        Stays(j) == j.id \notin removed
    IN  /\ \A n \in 1..Len(jobs) :
              (jobs[n].status = "completed" /\ jobs[n].id \notin removed) =>
                  /\ jobs[n].progress = 100
                  /\ \E k \in 1..Len(jobs') : jobs'[k] = jobs[n]
        /\ removed /= {} =>
              /\ Cardinality(removed) = 1 \/ removed = completed
              /\ jobs' = SelectSeq(jobs, Stays)

\* C20: a completed job keeps its status, progress 100 and result while its
\* siblings are processed, removed or cleared; a job leaves the list only by
\* the remove action or the clear-completed action, and clear-completed
\* removes exactly the completed jobs and changes no other job.
C20_CompletedKept == [][C20_Step]_vars

\* A completed job is listed beside a sibling that is being processed and has
\* made progress, after another job has left the list.
C20_Witness ==
    /\ nextId - 1 > Len(jobs)
    /\ \E n, k \in 1..Len(jobs) :
          /\ jobs[n].status = "completed"
          /\ jobs[n].progress = 100
          /\ jobs[k].status = "processing"
          /\ jobs[k].progress > 0

\* C21: while a batch run is in flight, every call of enhanceImageBatch of
\* the run was given the settings in effect when start was pressed, whatever
\* the sliders have been moved to since.
C21_SameSettings ==
    isProcessing => passed = {runSettings}

\* A second job of the run has been passed to the enhancer after the sliders
\* were moved away from the settings the run was started with.
C21_Witness ==
    /\ isProcessing
    /\ uiSettings /= runSettings
    /\ mpc = "enhancing"
    /\ \E n \in 1..Len(jobs) : jobs[n].status = "completed" /\ jobs[n].id /= cur.id

\* The ids of the jobs the running mutationFn has still to begin.
QueueIds == {queue[n].id : n \in 1..Len(queue)}

\* One step of the component: pressing start takes exactly the pending jobs;
\* a job leaves the queue of the run only by being passed to the enhancer,
\* which counts one call for it; no job is passed twice; the run ends only
\* with its queue empty; and an id that enters the job list is a new one.
C22_Step ==
    /\ (~isProcessing /\ isProcessing') =>
           {cur'.id} \cup QueueIds' = {jobs[n].id : n \in {k \in 1..Len(jobs) :
                                                         jobs[k].status = "pending"}}
    /\ (QueueIds \ QueueIds') \subseteq {cur'.id}
    /\ QueueIds' \subseteq QueueIds \/ ~isProcessing
    /\ (isProcessing /\ ~isProcessing') => QueueIds = {}
    /\ \A id \in 1..MaxIds :
           /\ processed'[id] <= 1
           /\ processed'[id] = processed[id] + (IF cur' /= cur /\ cur'.id = id THEN 1 ELSE 0)
    /\ (IdsOf(jobs') \ IdsOf(jobs)) \subseteq nextId..MaxIds

C23_HandlerResults ==
    /\ ~hThrew
    /\ \A n \in 1..Len(singleResult) :
         LET r == singleResult[n]
             made == singleCall[n].exec = "created" /\ ~MainBuildThrows(singleCall[n].commands)
         IN  IF made
             THEN r.success /\ r.outputPath = tempOutputPath
             ELSE ~r.success /\ r.error /= Undefined /\ r.outputPath = Undefined
    /\ \A n \in 1..Len(batchResults) :
         LET r == batchResults[n]
             o == batchOutcomes[n].outcome
             name == hImages[batchOutcomes[n].image]
         IN  /\ r.success => /\ o.write /\ o.exec = "created"
                             /\ r.outputPath = "temp/output_" \o name
             /\ ~r.success => r.error /= Undefined /\ r.outputPath = Undefined
             /\ (~o.write \/ o.exec /= "created") => ~r.success

\* Both handlers have run: processImage on a command that left no output
\* file, batchProcess with one image done and one whose command failed.
C23_Witness ==
    /\ hpc = "done"
    /\ singleCall[1].exec = "missing"
    /\ ~singleResult[1].success
    /\ \E n, k \in 1..Len(batchResults) :
          /\ batchResults[n].success
          /\ batchOutcomes[k].outcome.exec = "error"

\* C24, as claimed: editBatch and imagemagick:batchProcess return one result
\* per image, result i being the one of image i, whatever fails or throws.
C24_OneResultPerImage ==
    /\ hpc \in {"edit", "done"} =>
         /\ Len(batchResults) = Len(hImages)
         /\ \A n \in 1..Len(batchResults) : batchResults[n].name = hImages[n]
    /\ hpc = "done" =>
         /\ Len(editResults) = Len(hImages)
         /\ \A n \in 1..Len(editResults) : editResults[n].imageId = hImages[n]

\* C25: for every settings object the list of the main-process compiler is
\* the list of the renderer compiler without its shadows-highlights,
\* color-matrix and format instructions: same order, same parameters.
C25_CompilersAgree ==
    Compiled =>
        mainCommands =
            SelectSeq(rendererCommands,
                      LAMBDA c : c.operation \notin {"shadows-highlights", "color-matrix",
                                                     "format"})

\* Settings for which the renderer list has all three extra instructions
\* and the lists share unsharp and despeckle have been compiled by both.
C25_Witness ==
    /\ Compiled
    /\ settings.highlights /= 0
    /\ settings.tint /= 0
    /\ settings.sharpening > 0
    /\ settings.noiseReduction > 0
    /\ Len(rendererCommands) = Len(mainCommands) + 3
    /\ OfOperation(mainCommands, "despeckle") /= <<>>

\* C26, as claimed: while an import of the RAWImport component has not
\* finished, isProcessing is true, and the images of every finished import
\* have been appended once.
C26_ProcessingWhileImporting ==
    /\ (\E k \in 1..Len(imports) : ~imports[k].finished) => rawIsProcessing
    /\ \A k \in 1..Len(imports) : appended[k] = (IF imports[k].finished THEN 1 ELSE 0)

\* The extension of a file path: the piece after its last dot, in lower case,
\* or none when the name has no dot.
Extension(filePath) ==
    IF Len(filePath) > 1 THEN "." \o ToLowerCase(filePath[Len(filePath)]) ELSE ""

SupportedExtension(filePath) ==
    Extension(filePath) \in (SUPPORTED_RAW_FORMATS \cup SUPPORTED_JPEG_FORMATS)

\* The file paths of the results, in the order of results.
ResultPaths == [k \in 1..Len(mResults) |-> mResults[k].originalPath]

\* processMultipleImages accounts for every file once, keeps input order and
\* goes on after a failure.
C27_Accounted ==
    /\ Len(mResults) + Len(mErrors) = mpi
    /\ mReturned => mpi = Len(filePaths)
    /\ \E pick \in SUBSET (1..mpi) :
         /\ Cardinality(pick) = Len(mResults)
         /\ ResultPaths = SelectSeq([k \in 1..mpi |-> IF k \in pick THEN filePaths[k] ELSE <<>>],
                                    LAMBDA x : x /= <<>>)

\* C27, as claimed: on return results.length + errors.length is the number of
\* file paths, the results keep input order, a file with an unsupported
\* extension is never passed to processImageFile and produces an error entry,
\* and a failing file does not stop later files.
C27_EveryFileAccounted ==
    /\ C27_Accounted
    /\ \A k \in 1..Len(mProcessed) : SupportedExtension(mProcessed[k])
    /\ \A k \in 1..mpi :
         ~SupportedExtension(filePaths[k]) =>
             \E e \in 1..Len(mErrors) : mErrors[e].file = filePaths[k]

\* getSessionId() and getCacheDirectory()
GetSessionId == sessionId
GetCacheDirectory == cacheDir

\* C28, as claimed: between calls of initializeSession and cleanupSession,
\* failed ones included, getSessionId() is non-null exactly when
\* getCacheDirectory() is non-null, and both are null once cleanupSession has
\* returned.
C28_SessionConsistent ==
    spc = "idle" =>
        /\ (GetSessionId /= 0) <=> (GetCacheDirectory /= 0)
        /\ sessionReturn = "void" => (GetSessionId = 0 /\ GetCacheDirectory = 0)

Occurrences(list, analysis) == Cardinality({n \in 1..Len(list) : list[n] = analysis})

\* getCullingRecommendations puts each analysis in exactly one list.
C30_Partition ==
    culled =>
        \A k \in 1..Len(analyses) :
            Occurrences(keep, analyses[k]) + Occurrences(discard, analyses[k])
                + Occurrences(review, analyses[k]) = 1

\* The assistant gave numbers with blurriness false, sharpness >= 5,
\* artistry >= 8 and style_match >= 80.
GoodScores(response) ==
    /\ response /= <<>>
    /\ ~response[1].blurriness
    /\ response[1].sharpness /= <<>> /\ response[1].sharpness[1] >= 50
    /\ response[1].artistry /= <<>> /\ response[1].artistry[1] >= 80
    /\ response[1].style_match /= <<>> /\ response[1].style_match[1] >= 800

\* C30, as claimed: the recommendations are a partition of the analyses, and
\* an analysis built from numeric scores with blurriness false,
\* sharpness >= 5, artistry >= 8 and style_match >= 80 is in keep.
C30_GoodScoresKept ==
    culled =>
        /\ C30_Partition
        /\ \A k \in 1..Len(analyses) :
             GoodScores(responses[k]) => Occurrences(keep, analyses[k]) = 1

====
